---- MODULE Spec2Model ----
(***************************************************************************)
(* Model of templates/https-cert/cert-lambda.py: the Lambda handler, the   *)
(* certificate download endpoint, the CloudFormation custom resource       *)
(* wrapper and the ACME DNS-01 issuance workflow (generate_certificate).   *)
(* The ACME server, Route53 and Secrets Manager are the environment: every *)
(* answer they can give is a nondeterministic choice.                      *)
(***************************************************************************)
EXTENDS Integers, Sequences, FiniteSets, TLC

\* ------------------------------------------------------------------ bounds
MaxInvocations == 2

\* -------------------------------------------------------- program constants
AuthPollCap == 30
OrderPollCap == 30

Procs == {"lambda"}

\* ------------------------------------------------------------------ values
NoKey == [t |-> "none", id |-> 0]
ECKey(n) == [t |-> "EC", id |-> n]
RSAKey(n) == [t |-> "RSA", id |-> n]

NoNonce == 0
Url(name, n) == [u |-> name, n |-> n]
NoUrl == Url("None", 0)
NoJwk == [crv |-> "", kty |-> "", id |-> 0]
BadPem == [fmt |-> "garbage", key |-> NoKey]
NoText == <<>>
Str(x) == [str |-> x]
Text(t) == [text |-> t]

CERT_TOKEN == "token"
DOMAIN_NAME == "example.com"

\* key.private_bytes(PEM, PKCS8, NoEncryption).decode()
PrivateBytes(key) == [fmt |-> "PKCS8", key |-> key]

\* serialization.load_pem_private_key: the key, or NoKey when it raises
PemLoads(pem) == pem.fmt \in {"PKCS8", "SEC1"}
LoadPem(pem) == IF PemLoads(pem) THEN pem.key ELSE NoKey

\* ---------------------------------------------------------- secret store
\* A SecretString is either missing, text that is not JSON, or a JSON object
\* (a function from member names to values).
SecretAbsent == [kind |-> "absent", data |-> <<>>]
SecretGarbage == [kind |-> "text", data |-> <<>>]
SecretJson(d) == [kind |-> "json", data |-> d]

OldBundle(pem) ==
    [certificate |-> Text(<<"old-leaf", "END", "NL">>),
     chain |-> Text(NoText),
     private_key |-> PrivateBytes(RSAKey(0)),
     domain |-> Str(DOMAIN_NAME),
     expires |-> Str("old-expiry"),
     account_key |-> pem]

InitialSecrets ==
    { SecretAbsent,
      SecretGarbage,
      SecretJson(<<>>),
      SecretJson([account_key |-> BadPem]),
      SecretJson(OldBundle([fmt |-> "SEC1", key |-> ECKey(0)])) }

\* ----------------------------------------------------------------- events
AuthHeaders == { [bearer |-> b, token |-> t] : b \in BOOLEAN, t \in {"token", "wrong"} }
NoHeader == [bearer |-> FALSE, token |-> ""]

Events ==
    { [http |-> TRUE, authorization |-> h, RequestType |-> ""] : h \in AuthHeaders }
    \cup { [http |-> TRUE, authorization |-> [bearer |-> TRUE, token |-> "token"],
            RequestType |-> "Create"] }
    \cup { [http |-> FALSE, authorization |-> NoHeader, RequestType |-> t] :
             t \in {"", "Create", "Update", "Delete"} }

\* handler: which function the event is routed to
Dispatch(event) ==
    IF event.http THEN "api"
    ELSE IF event.RequestType # "" THEN "cfn"
    ELSE "gen"

\* -------------------------------------------------------------- outcomes
NoOutcome == [kind |-> "none", statusCode |-> 0, body |-> <<>>]
Return(code, body) == [kind |-> "return", statusCode |-> code, body |-> body]
NoDoc == [status |-> "", certificate |-> NoUrl]
Raised(msg, doc) == [kind |-> "raise", statusCode |-> 0, body |-> [msg |-> msg, detail |-> doc]]

VARIABLES
    inv,        \* per invocation: the locals of the running handler
    secret,     \* Secrets Manager: the current SecretString
    txt,        \* Route53: value of the _acme-challenge TXT record, or "none"
    nextKey,    \* key generator: keys generated so far
    nextOrder,  \* ACME server: orders created so far
    started,    \* invocations started so far
    hist        \* what earlier issuance attempts left behind

vars == <<inv, secret, txt, nextKey, nextOrder, started, hist>>

NoTxt == <<"none">>
NoReq == [kind |-> "none", url |-> NoUrl, nonce |-> NoNonce, key |-> NoKey,
          kid |-> NoUrl, jwk |-> NoJwk, code |-> "none", status |-> "",
          payload |-> "none", replay |-> FALSE]

\* the locals of one invocation before it starts
Fresh ==
    [pc |-> "idle",
     event |-> [http |-> FALSE, authorization |-> NoHeader, RequestType |-> ""],
     account_key |-> NoKey,
     nonce |-> NoNonce,
     account_url |-> NoUrl,
     cert_key |-> NoKey,
     csr |-> NoKey,
     order |-> [status |-> "", finalize |-> NoUrl, authorization |-> NoUrl,
                certificate |-> NoUrl],
     order_url |-> NoUrl,
     auth_url |-> NoUrl,
     auth_status |-> "",
     challenge_url |-> NoUrl,
     dns_value |-> NoTxt,
     change |-> "",
     i |-> 0,
     cert_pem |-> NoText,
     certificate |-> NoText,
     chain |-> NoText,
     expires |-> "",
     gen |-> NoOutcome,
     result |-> NoOutcome,
     cfn_sent |-> <<>>,
     \* history of this invocation
     loaded |-> "",
     read_ok |-> FALSE,
     secret0 |-> SecretAbsent,
     spent |-> {},
     last |-> NoReq,
     dns |-> <<>>,
     puts |-> 0]

NoHist == [account_key |-> NoKey, loaded |-> "", aborted |-> FALSE, cert_keys |-> {}, orders |-> {}]

Init ==
    /\ inv = [p \in Procs |-> Fresh]
    /\ secret \in InitialSecrets
    /\ txt = NoTxt
    /\ nextKey = 0
    /\ nextOrder = 0
    /\ started = 0
    /\ hist = NoHist

\* --------------------------------------------------------------- helpers
Continue(p, r) == inv' = [inv EXCEPT ![p] = r]

\* the handler returns or raises: the invocation is over
HandlerEnds(p, r, outcome) ==
    inv' = [inv EXCEPT ![p] = [r EXCEPT !.pc = "done", !.result = outcome]]

\* -------------------------------------------------------------- handler
Invoke(p, e) ==
    /\ started < MaxInvocations
    /\ \A q \in Procs : inv[q].pc \in {"idle", "done"}
    /\ started' = started + 1
    /\ Continue(p, [Fresh EXCEPT !.pc = Dispatch(e), !.event = e, !.secret0 = secret])
    /\ UNCHANGED <<secret, txt, nextKey, nextOrder, hist>>

\* variant: the stored object is returned as it is
StripNothing(data) == data

\* cert_data.pop('account_key', None)
StripAccountKey(data) == [f \in (DOMAIN data) \ {"account_key"} |-> data[f]]

HeaderOK(h) == h.bearer /\ h.token = CERT_TOKEN

\* handle_api_request, given whether get_secret_value itself answers
ApiResponse(event, s, readable) ==
    IF ~HeaderOK(event.authorization) THEN Return(403, [error |-> Str("Invalid authorization")])
    ELSE IF ~readable THEN Return(500, [error |-> Str("Failed to retrieve certificate")])
    ELSE IF s.kind = "absent" THEN Return(404, [error |-> Str("Certificate not yet generated")])
    ELSE IF s.kind # "json" THEN Return(500, [error |-> Str("Failed to retrieve certificate")])
    ELSE Return(200, StripAccountKey(s.data))

HandleApiRequest(p) ==
    /\ inv[p].pc = "api"
    /\ \E readable \in BOOLEAN :
         HandlerEnds(p, [inv[p] EXCEPT !.read_ok = readable],
                     ApiResponse(inv[p].event, secret, readable))
    /\ UNCHANGED <<secret, txt, nextKey, nextOrder, started, hist>>

\* ------------------------------------------------- generate_certificate
\* generate_certificate returns or raises: the issuance attempt is over.
\* Called from handler its outcome is the handler's; called from
\* handle_cfn_request the outcome goes to the custom resource response.
GenEnds(p, r, outcome) ==
    /\ hist' = [account_key |-> r.account_key,
                loaded |-> r.loaded,
                aborted |-> ~(outcome.kind = "return" /\ outcome.statusCode = 200),
                cert_keys |-> hist.cert_keys \cup ({r.cert_key} \ {NoKey}),
                orders |-> hist.orders \cup ({r.order_url} \ {NoUrl})]
    /\ IF Dispatch(r.event) = "cfn"
         THEN Continue(p, [r EXCEPT !.pc = "cfn_respond", !.gen = outcome])
         ELSE HandlerEnds(p, [r EXCEPT !.gen = outcome], outcome)

\* the import of the cryptography library at the top of the function
GenStart(p) ==
    /\ inv[p].pc = "gen"
    /\ \E available \in BOOLEAN :
         IF available
           THEN Continue(p, [inv[p] EXCEPT !.pc = "load"]) /\ UNCHANGED hist
           ELSE GenEnds(p, inv[p], Return(500, [body |-> Str("cryptography library not available")]))
    /\ UNCHANGED <<secret, txt, nextKey, nextOrder, started>>

\* variant: the stored account key is never looked at
StoredAccountKeyIgnored(readable, s) == NoKey

\* "Get or create account key": the key the stored secret yields, NoKey when
\* the read, the JSON parse or the PEM load raises or the member is missing
StoredAccountKey(readable, s) ==
    IF readable /\ s.kind = "json" /\ "account_key" \in DOMAIN s.data
      THEN LoadPem(s.data.account_key)
      ELSE NoKey

\* variant: the certificate key is the same at every issuance
GenerateRsaKeyFixed(generated) == RSAKey(1)

\* ec.generate_private_key / rsa.generate_private_key: a key nobody had
GenerateEcKey(generated) == ECKey(generated + 1)
GenerateRsaKey(generated) == RSAKey(generated + 1)

\* variant: a newly generated account key is saved to the secret at once
LoadAccountKeySaving(p) ==
    /\ inv[p].pc = "load"
    /\ \E readable \in BOOLEAN :
         LET stored == StoredAccountKey(readable, secret)
             r == [inv[p] EXCEPT !.pc = "directory", !.read_ok = readable] IN
         IF stored # NoKey
           THEN /\ Continue(p, [r EXCEPT !.account_key = stored, !.loaded = "stored"])
                /\ UNCHANGED <<nextKey, secret>>
           ELSE /\ Continue(p, [r EXCEPT !.account_key = GenerateEcKey(nextKey),
                                         !.loaded = "generated", !.puts = @ + 1])
                /\ nextKey' = nextKey + 1
                /\ secret' = SecretJson([account_key |-> PrivateBytes(GenerateEcKey(nextKey))])
    /\ UNCHANGED <<txt, nextOrder, started, hist>>

LoadAccountKey(p) ==
    /\ inv[p].pc = "load"
    /\ \E readable \in BOOLEAN :
         LET stored == StoredAccountKey(readable, secret)
             r == [inv[p] EXCEPT !.pc = "directory", !.read_ok = readable] IN
         IF stored # NoKey
           THEN /\ Continue(p, [r EXCEPT !.account_key = stored, !.loaded = "stored"])
                /\ UNCHANGED nextKey
           ELSE /\ Continue(p, [r EXCEPT !.account_key = GenerateEcKey(nextKey),
                                         !.loaded = "generated"])
                /\ nextKey' = nextKey + 1
    /\ UNCHANGED <<secret, txt, nextOrder, started, hist>>

\* fetch_url(ACME_DIRECTORY)
FetchDirectory(p) ==
    /\ inv[p].pc = "directory"
    /\ \E ok \in BOOLEAN :
         IF ok
           THEN Continue(p, [inv[p] EXCEPT !.pc = "nonce"]) /\ UNCHANGED hist
           ELSE GenEnds(p, inv[p], Raised("HTTP error", NoDoc))
    /\ UNCHANGED <<secret, txt, nextKey, nextOrder, started>>

\* the nonce the server puts in its next response to p
\* Nonces are opaque tokens and the server gives each out once: only the
\* ones an invocation still holds (its current nonce and the nonce of its
\* last request) can be told apart, and no two invocations ever hold the
\* same one. So each invocation has three names of its own, and the
\* server's fresh nonce is named by the least of them it does not hold.
Slot(p) == IF p = "lambda" THEN 0 ELSE 1
NoncePool(p) == (3 * Slot(p) + 1)..(3 * Slot(p) + 3)
HeldBy(r) == {r.nonce, r.last.nonce} \ {NoNonce}
Held(p) == HeldBy(inv[p])
ServerNonce(p) ==
    CHOOSE n \in NoncePool(p) \ Held(p) : \A m \in NoncePool(p) \ Held(p) : n <= m

\* fetch_url(directory['newNonce'], method='HEAD', return_headers=True)
FetchNonce(p) ==
    /\ inv[p].pc = "nonce"
    /\ \E ok \in BOOLEAN :
         IF ok
           THEN /\ Continue(p, [inv[p] EXCEPT !.pc = "register", !.nonce = ServerNonce(p)])
                /\ UNCHANGED hist
           ELSE GenEnds(p, inv[p], Raised("HTTP error", NoDoc))
    /\ UNCHANGED <<secret, txt, nextKey, nextOrder, started>>

\* ---------------------------------------------------------- acme_request
Jwk(key) == [crv |-> "P-256", kty |-> "EC", id |-> key.id]

\* the protected header: kid once an account URL is known, jwk otherwise
Protected(url, key, account_url, nonce) ==
    [alg |-> "ES256", nonce |-> nonce, url |-> url,
     kid |-> IF account_url # NoUrl THEN account_url ELSE NoUrl,
     jwk |-> IF account_url # NoUrl THEN NoJwk ELSE Jwk(key)]

\* variant: the caller keeps the nonce it already had
ReturnedNonceStale(response_nonce, nonce) == nonce

\* the nonce acme_request hands back with a 2xx response
ReturnedNonce(response_nonce, nonce) == response_nonce

\* acme_request as seen by its caller: the request that went out, and what
\* comes back. resp = [code, nonce, status]; on a non-2xx code the function
\* raises and the caller's nonce is whatever it was.
AcmeRequest(r, kind, url, account_url, payload, resp) ==
    LET protected == Protected(url, r.account_key, account_url, r.nonce)
        req == [kind |-> kind, url |-> url, nonce |-> protected.nonce,
                key |-> r.account_key, kid |-> protected.kid, jwk |-> protected.jwk,
                code |-> resp.code, status |-> resp.status, payload |-> payload,
                replay |-> protected.nonce \in r.spent]
        r2 == [r EXCEPT !.last = req,
               !.nonce = IF resp.code = "2xx" THEN ReturnedNonce(resp.nonce, r.nonce)
                         ELSE r.nonce]
    IN [r2 EXCEPT !.spent = ((@ \ {resp.nonce}) \cup {req.nonce}) \cap HeldBy(r2)]

Codes == {"2xx", "error"}
AcmeError == Raised("ACME error", NoDoc)
Resp(p, code, status) == [code |-> code, nonce |-> ServerNonce(p), status |-> status]

\* acme_register, then the certificate key and the CSR
Register(p) ==
    /\ inv[p].pc = "register"
    /\ \E code \in Codes, loc \in {NoUrl, Url("acct", 1)} :
         LET r == AcmeRequest(inv[p], "newAccount", Url("newAccount", 0), NoUrl,
                              "termsOfServiceAgreed", Resp(p, code, ""))
         IN IF code = "2xx"
              THEN /\ Continue(p, [r EXCEPT !.pc = "order", !.account_url = loc,
                                            !.cert_key = GenerateRsaKey(nextKey),
                                            !.csr = GenerateRsaKey(nextKey)])
                   /\ nextKey' = nextKey + 1
                   /\ UNCHANGED hist
              ELSE /\ loc = NoUrl
                   /\ GenEnds(p, r, AcmeError)
                   /\ UNCHANGED nextKey
    /\ UNCHANGED <<secret, txt, nextOrder, started>>

\* "Create order"
NewOrder(p) ==
    /\ inv[p].pc = "order"
    /\ \E code \in Codes :
         LET r == AcmeRequest(inv[p], "newOrder", Url("newOrder", 0), inv[p].account_url,
                              "identifiers", Resp(p, code, IF code = "2xx" THEN "pending" ELSE ""))
             n == nextOrder + 1
         IN IF code = "2xx"
              THEN /\ Continue(p, [r EXCEPT !.pc = "authz",
                                            !.order = [status |-> "pending",
                                                       finalize |-> Url("finalize", n),
                                                       authorization |-> Url("authz", n),
                                                       certificate |-> NoUrl],
                                            !.order_url = Url("order", n)])
                   /\ nextOrder' = n
                   /\ UNCHANGED hist
              ELSE GenEnds(p, r, AcmeError) /\ UNCHANGED nextOrder
    /\ UNCHANGED <<secret, txt, nextKey, started>>

\* "Find DNS-01 challenge": index of the first dns-01 challenge, 0 if none
RECURSIVE FindDns01(_, _)
FindDns01(challenges, k) ==
    IF k > Len(challenges) THEN 0
    ELSE IF challenges[k] = "dns-01" THEN k
    ELSE FindDns01(challenges, k + 1)

ChallengeLists == { <<"http-01", "dns-01">>, <<"http-01", "tls-alpn-01">> }

\* jwk_thumbprint and "Compute challenge response"
Thumbprint(key) == <<"sha256", Jwk(key)>>
DnsValue(token, key) == <<"sha256", token, Thumbprint(key)>>

\* "Get authorization", the challenge selection and the DNS value
GetAuthorization(p) ==
    /\ inv[p].pc = "authz"
    /\ \E code \in Codes, challenges \in ChallengeLists :
         LET auth_url == inv[p].order.authorization
             r == AcmeRequest(inv[p], "authz", auth_url, inv[p].account_url, "None",
                              Resp(p, code, IF code = "2xx" THEN "pending" ELSE ""))
             c == FindDns01(challenges, 1)
         IN IF code # "2xx"
              THEN challenges = <<"http-01", "dns-01">> /\ GenEnds(p, r, AcmeError)
              ELSE IF c = 0
                THEN GenEnds(p, [r EXCEPT !.auth_url = auth_url],
                             Raised("No DNS-01 challenge found", NoDoc))
                ELSE /\ Continue(p, [r EXCEPT !.pc = "upsert", !.auth_url = auth_url,
                                              !.challenge_url = Url("challenge", c),
                                              !.dns_value = DnsValue("token", r.account_key)])
                     /\ UNCHANGED hist
    /\ UNCHANGED <<secret, txt, nextKey, nextOrder, started>>


\* ------------------------------------------------------------- Route53
DnsOp(action, value, ok) == [action |-> action, name |-> "_acme-challenge", value |-> value, ok |-> ok]

\* "Create DNS TXT record"
UpsertTxt(p) ==
    /\ inv[p].pc = "upsert"
    /\ \E ok \in BOOLEAN :
         LET r == [inv[p] EXCEPT !.dns = Append(@, DnsOp("UPSERT", inv[p].dns_value, ok))]
         IN IF ok
              THEN /\ txt' = r.dns_value
                   /\ Continue(p, [r EXCEPT !.pc = "propagate"])
                   /\ UNCHANGED hist
              ELSE /\ GenEnds(p, r, Raised("route53 error", NoDoc))
                   /\ UNCHANGED txt
    /\ UNCHANGED <<secret, nextKey, nextOrder, started>>

\* variant: the loop is left after the first query, whatever it reports
GetChangeNotWaiting(p) ==
    /\ inv[p].pc = "propagate"
    /\ \E status \in {"PENDING", "INSYNC", "error"} :
         CASE status \in {"INSYNC", "PENDING"} ->
                  Continue(p, [inv[p] EXCEPT !.pc = "settle", !.change = status])
                  /\ UNCHANGED hist
           [] OTHER -> GenEnds(p, inv[p], Raised("route53 error", NoDoc))
    /\ UNCHANGED <<secret, txt, nextKey, nextOrder, started>>

\* "Wait for DNS propagation": one route53.get_change of the while loop;
\* change is the status it reported
GetChange(p) ==
    /\ inv[p].pc = "propagate"
    /\ \E status \in {"PENDING", "INSYNC", "error"} :
         CASE status = "INSYNC" ->
                  Continue(p, [inv[p] EXCEPT !.pc = "settle", !.change = status])
                  /\ UNCHANGED hist
           [] status = "PENDING" ->
                  Continue(p, [inv[p] EXCEPT !.pc = "sleep5", !.change = status])
                  /\ UNCHANGED hist
           [] OTHER -> GenEnds(p, inv[p], Raised("route53 error", NoDoc))
    /\ UNCHANGED <<secret, txt, nextKey, nextOrder, started>>

\* time.sleep(5), then the loop tests again
Sleep5(p) ==
    /\ inv[p].pc = "sleep5"
    /\ Continue(p, [inv[p] EXCEPT !.pc = "propagate"])
    /\ UNCHANGED <<secret, txt, nextKey, nextOrder, started, hist>>

\* "Extra wait for DNS propagation": time.sleep(10)
Settle(p) ==
    /\ inv[p].pc = "settle"
    /\ Continue(p, [inv[p] EXCEPT !.pc = "submit"])
    /\ UNCHANGED <<secret, txt, nextKey, nextOrder, started, hist>>

\* variant: a challenge submission answered with an error is sent again
SubmitChallengeRetrying(p) ==
    /\ inv[p].pc = "submit"
    /\ \E code \in Codes :
         LET r == AcmeRequest(inv[p], "challenge", inv[p].challenge_url, inv[p].account_url,
                              "{}", Resp(p, code, ""))
         IN IF code = "2xx"
              THEN Continue(p, [r EXCEPT !.pc = "authpoll", !.i = 0])
              ELSE Continue(p, r)
    /\ UNCHANGED <<secret, txt, nextKey, nextOrder, started, hist>>

\* "Notify ACME to verify challenge"
SubmitChallenge(p) ==
    /\ inv[p].pc = "submit"
    /\ \E code \in Codes :
         LET r == AcmeRequest(inv[p], "challenge", inv[p].challenge_url, inv[p].account_url,
                              "{}", Resp(p, code, ""))
         IN IF code = "2xx"
              THEN Continue(p, [r EXCEPT !.pc = "authpoll", !.i = 0]) /\ UNCHANGED hist
              ELSE GenEnds(p, r, AcmeError)
    /\ UNCHANGED <<secret, txt, nextKey, nextOrder, started>>

\* variant: the attempt cap is tested one iteration late
AuthPollNextOffByOne(status, polls) ==
    IF status = "valid" THEN "break"
    ELSE IF status = "invalid" THEN "invalid"
    ELSE IF polls > AuthPollCap THEN "timeout"
    ELSE "again"

\* variant: an invalid authorization is polled again like a pending one
AuthPollNextIgnoringInvalid(status, polls) ==
    IF status = "valid" THEN "break"
    ELSE IF polls >= AuthPollCap THEN "timeout"
    ELSE "again"

\* what one iteration of "Poll for authorization status" leads to, given the
\* status it read and the number of iterations made so far, this one included
AuthPollNext(status, polls) ==
    IF status = "valid" THEN "break"
    ELSE IF status = "invalid" THEN "invalid"
    ELSE IF polls >= AuthPollCap THEN "timeout"
    ELSE "again"

AuthStatuses == {"pending", "valid", "invalid"}

PollAuthorization(p) ==
    /\ inv[p].pc = "authpoll"
    /\ inv[p].i < AuthPollCap
    /\ \E code \in Codes, status \in AuthStatuses :
         LET r == AcmeRequest(inv[p], "authpoll", inv[p].auth_url, inv[p].account_url, "None",
                              Resp(p, code, IF code = "2xx" THEN status ELSE ""))
             polls == inv[p].i + 1
             auth == [status |-> status, certificate |-> NoUrl]
         IN IF code # "2xx"
              THEN status = "pending" /\ GenEnds(p, r, AcmeError)
              ELSE LET r2 == [r EXCEPT !.auth_status = status, !.i = polls] IN
                   CASE AuthPollNext(status, polls) = "break" ->
                          Continue(p, [r2 EXCEPT !.pc = "finalize", !.i = 0]) /\ UNCHANGED hist
                     [] AuthPollNext(status, polls) = "again" ->
                          Continue(p, r2) /\ UNCHANGED hist
                     [] AuthPollNext(status, polls) = "invalid" ->
                          GenEnds(p, r2, Raised("Challenge failed", auth))
                     [] OTHER ->
                          GenEnds(p, r2, Raised("Challenge validation timeout", NoDoc))
    /\ UNCHANGED <<secret, txt, nextKey, nextOrder, started>>

\* "Finalize order"
Finalize(p) ==
    /\ inv[p].pc = "finalize"
    /\ \E code \in Codes :
         LET r == AcmeRequest(inv[p], "finalize", inv[p].order.finalize, inv[p].account_url,
                              "csr", Resp(p, code, ""))
         IN IF code = "2xx"
              THEN Continue(p, [r EXCEPT !.pc = "orderpoll", !.i = 0]) /\ UNCHANGED hist
              ELSE GenEnds(p, r, AcmeError)
    /\ UNCHANGED <<secret, txt, nextKey, nextOrder, started>>

\* variant: the loop ends on status valid alone
OrderPollNextOnStatusOnly(order, polls) ==
    IF order.status = "valid" THEN "break"
    ELSE IF order.status = "invalid" THEN "invalid"
    ELSE IF polls >= OrderPollCap THEN "timeout"
    ELSE "again"

\* what one iteration of "Poll for certificate" leads to
OrderPollNext(order, polls) ==
    IF order.status = "valid" /\ order.certificate # NoUrl THEN "break"
    ELSE IF order.status = "invalid" THEN "invalid"
    ELSE IF polls >= OrderPollCap THEN "timeout"
    ELSE "again"

OrderBodies ==
    { [status |-> "processing", certificate |-> NoUrl],
      [status |-> "valid", certificate |-> NoUrl],
      [status |-> "valid", certificate |-> Url("cert", 1)],
      [status |-> "valid", certificate |-> Url("cert", 2)],
      [status |-> "invalid", certificate |-> NoUrl] }

PollOrder(p) ==
    /\ inv[p].pc = "orderpoll"
    /\ inv[p].i < OrderPollCap
    /\ \E code \in Codes, body \in OrderBodies :
         LET r == AcmeRequest(inv[p], "orderpoll", inv[p].order_url, inv[p].account_url, "None",
                              Resp(p, code, IF code = "2xx" THEN body.status ELSE ""))
             polls == inv[p].i + 1
         IN IF code # "2xx"
              THEN body.status = "processing" /\ GenEnds(p, r, AcmeError)
              ELSE LET r2 == [r EXCEPT !.order = [@ EXCEPT !.status = body.status,
                                                          !.certificate = body.certificate],
                                       !.i = polls] IN
                   CASE OrderPollNext(body, polls) = "break" ->
                          Continue(p, [r2 EXCEPT !.pc = "download", !.i = 0]) /\ UNCHANGED hist
                     [] OrderPollNext(body, polls) = "again" ->
                          Continue(p, r2) /\ UNCHANGED hist
                     [] OrderPollNext(body, polls) = "invalid" ->
                          GenEnds(p, r2, Raised("Order failed", body))
                     [] OTHER ->
                          GenEnds(p, r2, Raised("Order finalization timeout", NoDoc))
    /\ UNCHANGED <<secret, txt, nextKey, nextOrder, started>>

\* ------------------------------------------------ certificate chain text
\* A PEM text is a sequence of tokens: "END" is the end marker
\* -----END CERTIFICATE-----, "NL" a newline, any other token the begin
\* marker and base64 lines of one certificate.
RECURSIVE Split(_, _)
\* str.split(sep): the pieces between the occurrences of sep
Split(text, sep) ==
    IF \A k \in 1..Len(text) : text[k] # sep THEN <<text>>
    ELSE LET k == CHOOSE j \in 1..Len(text) :
                      text[j] = sep /\ \A h \in 1..(j - 1) : text[h] # sep
         IN <<SubSeq(text, 1, k - 1)>> \o Split(SubSeq(text, k + 1, Len(text)), sep)

RECURSIVE Join(_, _)
\* sep.join(pieces)
Join(pieces, sep) ==
    IF Len(pieces) = 0 THEN <<>>
    ELSE IF Len(pieces) = 1 THEN pieces[1]
    ELSE pieces[1] \o <<sep>> \o Join(Tail(pieces), sep)

RECURSIVE Strip(_)
\* str.strip()
Strip(text) ==
    IF Len(text) = 0 THEN text
    ELSE IF text[1] = "NL" THEN Strip(Tail(text))
    ELSE IF text[Len(text)] = "NL" THEN Strip(SubSeq(text, 1, Len(text) - 1))
    ELSE text

\* "Parse certificate chain"
LeafOf(cert_pem) == Split(cert_pem, "END")[1] \o <<"END", "NL">>

\* variant: the rejoined rest is not stripped
ChainOfUnstripped(cert_pem) ==
    LET chain == Join(Tail(Split(cert_pem, "END")), "END")
    IN IF chain # <<>> THEN chain \o <<"NL">> ELSE chain

ChainOf(cert_pem) ==
    LET chain == Strip(Join(Tail(Split(cert_pem, "END")), "END"))
    IN IF chain # <<>> THEN chain \o <<"NL">> ELSE chain

\* "Parse expiry": not_valid_after_utc.isoformat() of the leaf, "" when
\* x509.load_pem_x509_certificate raises
NotAfter(certificate) ==
    IF certificate = <<"leafA", "END", "NL">> THEN "2027-01-01T00:00:00+00:00"
    ELSE IF certificate = <<"leafB", "END", "NL">> THEN "2027-02-02T00:00:00+00:00"
    ELSE ""

PemTexts ==
    { <<"leafB", "END", "NL", "int1", "END", "NL">>,
      <<"junk", "END", "NL">> }

\* "Download certificate", the split and the expiry
Download(p) ==
    /\ inv[p].pc = "download"
    /\ \E code \in Codes, pem \in PemTexts :
         LET r == AcmeRequest(inv[p], "certificate", inv[p].order.certificate,
                              inv[p].account_url, "None", Resp(p, code, ""))
         IN IF code # "2xx"
              THEN pem = <<"junk", "END", "NL">> /\ GenEnds(p, r, AcmeError)
              ELSE LET r2 == [r EXCEPT !.nonce = inv[p].nonce,
                                       !.cert_pem = pem,
                                       !.certificate = LeafOf(pem),
                                       !.chain = ChainOf(pem)] IN
                   IF NotAfter(r2.certificate) = ""
                     THEN GenEnds(p, r2, Raised("x509 parse error", NoDoc))
                     ELSE /\ Continue(p, [r2 EXCEPT !.pc = "cleanup",
                                                    !.expires = NotAfter(r2.certificate)])
                          /\ UNCHANGED hist
    /\ UNCHANGED <<secret, txt, nextKey, nextOrder, started>>

\* variant: a delete that raises ends the attempt
CleanupRaising(p) ==
    /\ inv[p].pc = "cleanup"
    /\ \E ok \in BOOLEAN :
         LET r == [inv[p] EXCEPT !.dns = Append(@, DnsOp("DELETE", inv[p].dns_value, ok))] IN
         /\ ok => txt = inv[p].dns_value
         /\ txt' = IF ok THEN NoTxt ELSE txt
         /\ IF ok THEN Continue(p, [r EXCEPT !.pc = "put"]) /\ UNCHANGED hist
                  ELSE GenEnds(p, r, Raised("route53 error", NoDoc))
    /\ UNCHANGED <<secret, nextKey, nextOrder, started>>

\* "Cleanup DNS record": the delete is tried, a failure is only logged
Cleanup(p) ==
    /\ inv[p].pc = "cleanup"
    /\ \E ok \in BOOLEAN :
         /\ ok => txt = inv[p].dns_value
         /\ txt' = IF ok THEN NoTxt ELSE txt
         /\ Continue(p, [inv[p] EXCEPT !.pc = "put",
                                       !.dns = Append(@, DnsOp("DELETE", inv[p].dns_value, ok))])
    /\ UNCHANGED <<secret, nextKey, nextOrder, started, hist>>

\* cert_data of "Store certificate in Secrets Manager"
CertData(r) ==
    [certificate |-> Text(r.certificate),
     chain |-> Text(r.chain),
     private_key |-> PrivateBytes(r.cert_key),
     domain |-> Str(DOMAIN_NAME),
     expires |-> Str(r.expires),
     account_key |-> PrivateBytes(r.account_key)]

\* variant: the put keeps the account key the secret already holds
PutSecretMerging(p) ==
    /\ inv[p].pc = "put"
    /\ \E ok \in BOOLEAN :
         LET r == [inv[p] EXCEPT !.puts = @ + 1]
             kept == IF secret.kind = "json" /\ "account_key" \in DOMAIN secret.data
                       THEN secret.data.account_key
                       ELSE PrivateBytes(r.account_key) IN
         IF ok
           THEN /\ secret' = SecretJson([CertData(r) EXCEPT !.account_key = kept])
                /\ GenEnds(p, r, Return(200, [message |-> Str("Certificate generated"),
                                              expires |-> Str(r.expires)]))
           ELSE /\ UNCHANGED secret
                /\ GenEnds(p, r, Raised("secretsmanager error", NoDoc))
    /\ UNCHANGED <<txt, nextKey, nextOrder, started>>

\* secrets.put_secret_value and the return
PutSecret(p) ==
    /\ inv[p].pc = "put"
    /\ \E ok \in BOOLEAN :
         LET r == [inv[p] EXCEPT !.puts = @ + 1] IN
         IF ok
           THEN /\ secret' = SecretJson(CertData(r))
                /\ GenEnds(p, r, Return(200, [message |-> Str("Certificate generated"),
                                              expires |-> Str(r.expires)]))
           ELSE /\ UNCHANGED secret
                /\ GenEnds(p, r, Raised("secretsmanager error", NoDoc))
    /\ UNCHANGED <<txt, nextKey, nextOrder, started>>

\* --------------------------------------------------- handle_cfn_request
CfnEnter(p) ==
    /\ inv[p].pc = "cfn"
    /\ IF inv[p].event.RequestType \in {"Create", "Update"}
         THEN Continue(p, [inv[p] EXCEPT !.pc = "gen"])
         ELSE Continue(p, [inv[p] EXCEPT !.pc = "cfn_respond"])
    /\ UNCHANGED <<secret, txt, nextKey, nextOrder, started, hist>>

\* status of the custom resource response, from what generate_certificate did
CfnStatus(gen) ==
    IF gen.kind = "raise" THEN "FAILED"
    ELSE IF gen.kind = "return" /\ gen.statusCode # 200 THEN "FAILED"
    ELSE "SUCCESS"

\* "Send response to CloudFormation" and the return
CfnRespond(p) ==
    /\ inv[p].pc = "cfn_respond"
    /\ \E ok \in BOOLEAN :
         LET status == CfnStatus(inv[p].gen) IN
         IF ok
           THEN HandlerEnds(p, [inv[p] EXCEPT !.cfn_sent = Append(@, [Status |-> status,
                                                                     Reason |-> inv[p].gen.body])],
                            Return(IF status = "SUCCESS" THEN 200 ELSE 500, <<>>))
           ELSE HandlerEnds(p, inv[p], Raised("urlopen error", NoDoc))
    /\ UNCHANGED <<secret, txt, nextKey, nextOrder, started, hist>>

\* one step of a running invocation
Step(p) ==
    \/ HandleApiRequest(p)
    \/ CfnEnter(p)
    \/ CfnRespond(p)
    \/ GenStart(p)
    \/ LoadAccountKey(p)
    \/ FetchDirectory(p)
    \/ FetchNonce(p)
    \/ Register(p)
    \/ NewOrder(p)
    \/ GetAuthorization(p)
    \/ UpsertTxt(p)
    \/ GetChange(p)
    \/ Sleep5(p)
    \/ Settle(p)
    \/ SubmitChallenge(p)
    \/ PollAuthorization(p)
    \/ Finalize(p)
    \/ PollOrder(p)
    \/ Download(p)
    \/ Cleanup(p)
    \/ PutSecret(p)

Next ==
    \E p \in Procs :
        \/ \E e \in Events : Invoke(p, e)
        \/ Step(p)

Spec == Init /\ [][Next]_vars

\* the Lambda runtime keeps running a handler that has a step to take
FairSpec == Spec /\ \A p \in Procs : WF_vars(Step(p))

\* ------------------------------------------------ overlapping attempts
\* Nothing in the handler keeps two invocations apart: two Lambda instances
\* each run one issuance attempt for the domain, their steps interleaved in
\* any order. The environment is cut down to the runs that matter for what
\* the secret ends up holding: the ACME server, Route53 and the directory
\* fetch answer without error (put_secret_value may still raise), and a
\* poll is answered "again" at most MaxConcPolls times.
MaxConcPolls == 0
Instances == {"lambda", "lambda2"}
ConcSecrets == { SecretAbsent, SecretJson(OldBundle([fmt |-> "SEC1", key |-> ECKey(0)])) }
ScheduledEvent == [http |-> FALSE, authorization |-> NoHeader, RequestType |-> ""]

ConcInit ==
    /\ inv = [p \in Instances |-> Fresh]
    /\ secret \in ConcSecrets
    /\ txt = NoTxt
    /\ nextKey = 0
    /\ nextOrder = 0
    /\ started = 0
    /\ hist = NoHist

ConcInvoke(p) ==
    /\ inv[p].pc = "idle"
    /\ started' = started + 1
    /\ Continue(p, [Fresh EXCEPT !.pc = Dispatch(ScheduledEvent), !.event = ScheduledEvent,
                                 !.secret0 = secret])
    /\ UNCHANGED <<secret, txt, nextKey, nextOrder, hist>>

\* one step of generate_certificate
GenStep(p) ==
    \/ GenStart(p)
    \/ LoadAccountKey(p)
    \/ FetchDirectory(p)
    \/ FetchNonce(p)
    \/ Register(p)
    \/ NewOrder(p)
    \/ GetAuthorization(p)
    \/ UpsertTxt(p)
    \/ GetChange(p)
    \/ Sleep5(p)
    \/ Settle(p)
    \/ SubmitChallenge(p)
    \/ PollAuthorization(p)
    \/ Finalize(p)
    \/ PollOrder(p)
    \/ Download(p)
    \/ Cleanup(p)
    \/ PutSecret(p)

ConcNext ==
    \E p \in Instances :
        /\ ConcInvoke(p) \/ GenStep(p)
        /\ inv'[p].i <= MaxConcPolls
        /\ inv'[p].gen.kind = "raise" => inv'[p].gen.body.msg = "secretsmanager error"

ConcSpec == ConcInit /\ [][ConcNext]_vars

\* ----------------------------------------- the chain split on its own
\* One certificate block as the server sends it: begin marker, base64 lines,
\* end marker, each followed by a newline.
MaxBlocks == 4
Bodies == {"MIIB", "MIIC", "MIID"}
Block(b) == <<"BEGIN", "NL", b, "NL", "END", "NL">>

RECURSIVE Concat(_)
Concat(bodies) ==
    IF Len(bodies) = 0 THEN <<>> ELSE Block(Head(bodies)) \o Concat(Tail(bodies))

BlockSeqs == UNION { [1..n -> Bodies] : n \in 1..MaxBlocks }

\* the download has returned the text of 1..MaxBlocks certificate blocks
PemInit ==
    /\ \E bodies \in BlockSeqs :
          inv = [p \in Procs |-> [Fresh EXCEPT !.pc = "split", !.cert_pem = Concat(bodies)]]
    /\ secret = SecretAbsent
    /\ txt = NoTxt
    /\ nextKey = 0
    /\ nextOrder = 0
    /\ started = 1
    /\ hist = NoHist

\* "Parse certificate chain" applied to cert_pem
ParseChain(p) ==
    /\ inv[p].pc = "split"
    /\ Continue(p, [inv[p] EXCEPT !.pc = "parsed",
                                  !.certificate = LeafOf(inv[p].cert_pem),
                                  !.chain = ChainOf(inv[p].cert_pem)])
    /\ UNCHANGED <<secret, txt, nextKey, nextOrder, started, hist>>

PemNext == \E p \in Procs : ParseChain(p)

PemSpec == PemInit /\ [][PemNext]_vars

\* ================================================================ claims
GenSteps == {"gen", "load", "directory", "nonce", "register", "order", "authz", "upsert",
             "propagate", "sleep5", "settle", "submit", "authpoll", "finalize",
             "orderpoll", "download", "cleanup", "put"}
SendingSteps == {"register", "order", "authz", "submit", "authpoll", "finalize",
                 "orderpoll", "download"}
Ended(r) == r.gen.kind # "none"
Succeeded(r) == r.gen.kind = "return" /\ r.gen.statusCode = 200
Failed(r) == Ended(r) /\ ~Succeeded(r)
FailedWith(r, msg) == r.gen.kind = "raise" /\ r.gen.body.msg = msg
Downloaded(r) == r.last.kind = "certificate" /\ r.last.code = "2xx"

\* C1: the secret is put exactly once by an attempt that succeeds and never by
\* an attempt that fails at any step up to the leaf parsing, which leaves the
\* stored secret as it was when the attempt began; a put happens only once
\* the certificate is downloaded and the bundle (leaf, expiry) is assembled,
\* and what it stores is that bundle.
C1_SecretWrittenOnlyOnSuccess ==
    \A p \in Procs :
        LET r == inv[p] IN
        /\ Succeeded(r) => r.puts = 1 /\ secret = SecretJson(CertData(r))
        /\ (Failed(r) /\ ~FailedWith(r, "secretsmanager error")) =>
               r.puts = 0 /\ secret = r.secret0
        /\ (r.pc \in GenSteps /\ r.puts = 0) => secret = r.secret0
        /\ r.puts > 0 => /\ Downloaded(r)
                         /\ r.certificate # NoText
                         /\ r.expires # ""
                         /\ r.pc \notin GenSteps

C1_Witness ==
    \E p \in Procs :
        /\ FailedWith(inv[p], "x509 parse error")
        /\ Downloaded(inv[p])
        /\ inv[p].secret0.kind = "json"
        /\ secret = inv[p].secret0

\* C2: no signed request of an attempt presents a nonce that an earlier
\* request of the attempt presented, in particular not the nonce of the
\* request just before it; and whenever the attempt is about to send a
\* signed request, the nonce it holds has not been presented yet.
C2_NonceNeverReused ==
    \A p \in Procs :
        LET r == inv[p] IN
        /\ ~r.last.replay
        /\ r.pc \in SendingSteps =>
              /\ r.nonce # NoNonce
              /\ r.nonce \notin r.spent
              /\ r.last.kind # "none" => r.nonce # r.last.nonce

C2_Witness ==
    \E p \in Procs :
        /\ inv[p].pc = "authpoll"
        /\ inv[p].i >= 2
        /\ inv[p].last.kind = "authpoll"
        /\ inv[p].last.nonce \in inv[p].spent
\* a step of p that sends a signed ACME request
Sends(p) ==
    \/ Register(p) \/ NewOrder(p) \/ GetAuthorization(p) \/ SubmitChallenge(p)
    \/ PollAuthorization(p) \/ Finalize(p) \/ PollOrder(p) \/ Download(p)

InvalidSeen(r) == r.last.kind = "authpoll" /\ r.last.code = "2xx" /\ r.last.status = "invalid"

\* C3: once an authorization poll has returned "invalid", the attempt has
\* failed with the challenge failure that carries the authorization document,
\* it has written nothing, and no step of it sends another request, polls,
\* downloads or puts the secret.
C3_InvalidEndsAttempt ==
    /\ [](\A p \in Procs :
            InvalidSeen(inv[p]) =>
               /\ inv[p].gen = Raised("Challenge failed", [status |-> "invalid", certificate |-> NoUrl])
               /\ inv[p].pc \notin GenSteps
               /\ inv[p].puts = 0)
    /\ [][\A p \in Procs :
            InvalidSeen(inv[p]) => ~Sends(p) /\ ~PutSecret(p) /\ secret' = secret]_vars

C3_Witness ==
    \E p \in Procs : InvalidSeen(inv[p]) /\ inv[p].i >= 2 /\ inv[p].pc = "done"

FinalizeSent(r) == r.last.kind \in {"finalize", "orderpoll", "certificate"}

\* C4: the authorization is polled at most 30 times; when the 30th poll too
\* is neither valid nor invalid the attempt fails with the challenge timeout
\* having made exactly 30 polls and sent no finalize request; the finalize
\* request is sent only after a poll returned "valid".
C4_ChallengeTimeout ==
    \A p \in Procs :
        LET r == inv[p] IN
        /\ r.pc = "authpoll" => r.i < AuthPollCap
        /\ r.last.kind = "authpoll" => r.i <= AuthPollCap
        /\ (r.last.kind = "authpoll" /\ r.last.code = "2xx" /\ r.i = 30
              /\ r.last.status \notin {"valid", "invalid"}) =>
               FailedWith(r, "Challenge validation timeout")
        /\ FailedWith(r, "Challenge validation timeout") =>
               r.i = 30 /\ r.last.kind = "authpoll" /\ ~FinalizeSent(r) /\ r.auth_status # "valid"
        /\ (r.last.kind = "authpoll" /\ r.last.code = "2xx" /\ r.i < 30
              /\ r.last.status \notin {"valid", "invalid"}) => r.pc = "authpoll"
        /\ (FinalizeSent(r) \/ r.pc = "finalize") => r.auth_status = "valid"

C4_Witness ==
    \E p \in Procs :
        FailedWith(inv[p], "Challenge validation timeout") /\ inv[p].i = 30

\* C5: the order is polled at most 30 times; the loop ends well only on a
\* body with status "valid" and a certificate URL, a "valid" body without
\* one is polled again, "invalid" fails the attempt with the order failure,
\* and the 30th poll without an outcome fails it with the order timeout; the
\* download request follows only such a "valid" body and goes to its URL.
C5_OrderPolling ==
    \A p \in Procs :
        LET r == inv[p]
            polled == r.last.kind = "orderpoll" /\ r.last.code = "2xx" IN
        /\ r.pc = "orderpoll" => r.i < OrderPollCap
        /\ r.last.kind = "orderpoll" => r.i <= OrderPollCap
        /\ (polled /\ r.order.status = "valid" /\ r.order.certificate # NoUrl) =>
               r.pc = "download"
        /\ (polled /\ r.order.status = "valid" /\ r.order.certificate = NoUrl /\ r.i < 30) =>
               r.pc = "orderpoll"
        /\ (polled /\ r.order.status = "invalid") =>
               r.gen = Raised("Order failed", [status |-> "invalid", certificate |-> NoUrl])
        /\ (polled /\ r.i = 30 /\ r.order.status # "invalid"
              /\ ~(r.order.status = "valid" /\ r.order.certificate # NoUrl)) =>
               FailedWith(r, "Order finalization timeout")
        /\ FailedWith(r, "Order finalization timeout") => r.i = 30 /\ r.last.kind = "orderpoll"
        /\ (r.pc = "download" \/ r.last.kind = "certificate") =>
               r.order.status = "valid" /\ r.order.certificate # NoUrl
        /\ r.last.kind = "certificate" => r.last.url = r.order.certificate

C5_Witness ==
    \E p \in Procs :
        /\ inv[p].last.kind = "certificate"
        /\ inv[p].last.url = Url("cert", 2)
        /\ inv[p].order.certificate = Url("cert", 2)
Upserted(r, k) == k \in 1..Len(r.dns) /\ r.dns[k].action = "UPSERT" /\ r.dns[k].ok

\* C6: every attempt that created the _acme-challenge TXT record has, by the
\* time it ends, tried to delete that record (same name, same value),
\* whatever way the validation and the later steps went.
C6_TxtRecordDeleted ==
    \A p \in Procs :
        LET r == inv[p] IN
        \A k \in 1..Len(r.dns) :
            (Ended(r) /\ Upserted(r, k)) =>
                \E j \in (k + 1)..Len(r.dns) :
                    /\ r.dns[j].action = "DELETE"
                    /\ r.dns[j].name = r.dns[k].name
                    /\ r.dns[j].value = r.dns[k].value

\* C7: every invocation that has started comes to an end, whatever the ACME
\* server and the DNS provider answer.
C7_AttemptTerminates ==
    \A p \in Procs : (inv[p].pc \notin {"idle", "done"}) ~> (inv[p].pc = "done")

\* the well-formed account key a secret holds, NoKey if it holds none
WellFormedKeyIn(s) ==
    IF s.kind = "json" /\ "account_key" \in DOMAIN s.data
         /\ s.data.account_key.fmt \in {"PKCS8", "SEC1"}
      THEN s.data.account_key.key
      ELSE NoKey

\* C8: an attempt that finds the secret readable with a well-formed account
\* key in it uses exactly that key: it generates none, signs every request
\* with it and, on success, stores it again; an attempt generates an account
\* key only when the secret was unreadable or held no well-formed key.
C8_AccountKeyPersists ==
    \A p \in Procs :
        LET r == inv[p]
            k0 == WellFormedKeyIn(r.secret0) IN
        r.loaded # "" =>
            /\ (r.read_ok /\ k0 # NoKey) =>
                  /\ r.loaded = "stored"
                  /\ r.account_key = k0
                  /\ r.last.kind # "none" => r.last.key = k0
                  /\ Succeeded(r) => WellFormedKeyIn(secret) = k0
            /\ r.loaded = "generated" =>
                  /\ ~r.read_ok \/ k0 = NoKey
                  /\ r.account_key # k0
                  /\ r.account_key.t = "EC"
            /\ r.loaded = "stored" => r.read_ok /\ k0 # NoKey

C8_Witness ==
    \E p \in Procs :
        /\ started = 2
        /\ inv[p].loaded = "stored"
        /\ inv[p].secret0.kind = "json"
        /\ inv[p].secret0.data.account_key = PrivateBytes(ECKey(1))
        /\ Succeeded(inv[p])
        /\ inv[p].last.key = ECKey(1)

Running(r) == r.pc \in GenSteps

\* what C9 says of the order and of the certificate key: a retry has an
\* order and a certificate key no earlier attempt had, and the private key a
\* successful attempt stores is its own, new one
NewOrderAndCertKey(r) ==
    /\ (Running(r) /\ r.order_url # NoUrl) => r.order_url \notin hist.orders
    /\ (Running(r) /\ r.cert_key # NoKey) =>
          /\ r.cert_key \notin hist.cert_keys
          /\ r.secret0.kind = "json" /\ "private_key" \in DOMAIN r.secret0.data =>
                r.cert_key # r.secret0.data.private_key.key
    /\ Succeeded(r) => secret.data.private_key = PrivateBytes(r.cert_key)

\* C9 as stated: a retry after an aborted attempt has a new order and a new
\* certificate key and signs with the account key of the aborted attempt,
\* also when that attempt began without a stored account key (taken here
\* only where the retry could read the secret).
C9_RetryReusesAccountKey ==
    \A p \in Procs :
        LET r == inv[p] IN
        /\ NewOrderAndCertKey(r)
        /\ (Running(r) /\ hist.aborted /\ hist.account_key # NoKey /\ r.loaded # "" /\ r.read_ok) =>
              r.account_key = hist.account_key

\* C9 amended: a retry has a new order and a new certificate key; it signs
\* with the aborted attempt's account key when that attempt had loaded the
\* key from the secret and the retry can read the secret; an account key the
\* aborted attempt generated is not kept, and the retry does not use it.
C9_RetryIsNewAttempt ==
    \A p \in Procs :
        LET r == inv[p] IN
        /\ NewOrderAndCertKey(r)
        /\ (Running(r) /\ hist.aborted /\ r.loaded # "") =>
              /\ (hist.loaded = "stored" /\ r.read_ok) =>
                    r.loaded = "stored" /\ r.account_key = hist.account_key
              /\ hist.loaded = "generated" => r.account_key # hist.account_key

C9_Witness ==
    \E p \in Procs :
        /\ inv[p].pc = "put"
        /\ hist.aborted
        /\ hist.loaded = "generated"
        /\ hist.cert_keys # {}
        /\ hist.orders # {}
        /\ inv[p].loaded = "generated"

\* the account key PEMs an invocation could give away
AccountKeyPems(r) ==
    {PrivateBytes(r.account_key)}
    \cup (IF r.secret0.kind = "json" /\ "account_key" \in DOMAIN r.secret0.data
            THEN {r.secret0.data.account_key} ELSE {})
    \cup (IF secret.kind = "json" /\ "account_key" \in DOMAIN secret.data
            THEN {secret.data.account_key} ELSE {})

Exposes(outcome, pems) ==
    \/ /\ outcome.kind = "return"
       /\ \/ "account_key" \in DOMAIN outcome.body
          \/ \E f \in DOMAIN outcome.body : outcome.body[f] \in pems
    \/ outcome.kind = "raise" /\ outcome.body.detail \in pems

\* C10: nothing the handler returns holds the account key: not the answer
\* of the download endpoint (200, 403, 404, 500), not the result of
\* generate_certificate, not the result of handle_cfn_request; the 200
\* answer is the stored object without its account_key member, and a
\* missing secret is answered 404.
C10_AccountKeyNotExposed ==
    \A p \in Procs :
        LET r == inv[p]
            api == Dispatch(r.event) = "api" /\ r.pc = "done" IN
        /\ ~Exposes(r.result, AccountKeyPems(r))
        /\ ~Exposes(r.gen, AccountKeyPems(r))
        /\ api => r.result.kind = "return" /\ r.result.statusCode \in {200, 403, 404, 500}
        /\ (api /\ r.result.statusCode = 200) =>
              /\ r.secret0.kind = "json"
              /\ DOMAIN r.result.body = (DOMAIN r.secret0.data) \ {"account_key"}
              /\ \A f \in DOMAIN r.result.body : r.result.body[f] = r.secret0.data[f]
        /\ (api /\ HeaderOK(r.event.authorization) /\ r.read_ok /\ r.secret0.kind = "absent") =>
              r.result.statusCode = 404
        /\ (api /\ r.result.statusCode = 404) => r.secret0.kind = "absent"
        /\ (api /\ ~HeaderOK(r.event.authorization)) => r.result.statusCode = 403

C10_Witness ==
    \E p \in Procs :
        /\ Dispatch(inv[p].event) = "api"
        /\ inv[p].pc = "done"
        /\ inv[p].result.statusCode = 200
        /\ "account_key" \in DOMAIN inv[p].secret0.data
        /\ "private_key" \in DOMAIN inv[p].result.body
        /\ inv[p].secret0.data.account_key = PrivateBytes(ECKey(1))

\* the delete of the cleanup, once tried
DeleteTried(r) == Len(r.dns) > 0 /\ r.dns[Len(r.dns)].action = "DELETE"
DeleteFailed(r) == DeleteTried(r) /\ ~r.dns[Len(r.dns)].ok

\* C11: a delete of the TXT record that raises is not propagated: whether
\* the delete succeeded or raised, the attempt goes on to put the secret; no
\* attempt ends with the delete's error; and an attempt whose ACME steps all
\* succeeded and whose put is accepted stores the bundle and returns 200
\* with the delete failed just as with the delete done.
C11_CleanupFailureNotFatal ==
    \A p \in Procs :
        LET r == inv[p] IN
        /\ r.pc = "put" => DeleteTried(r) /\ ~Ended(r)
        /\ DeleteTried(r) =>
              /\ Downloaded(r)
              /\ r.pc = "put" \/ Ended(r)
              /\ Ended(r) => r.puts = 1
              /\ Failed(r) => FailedWith(r, "secretsmanager error") /\ secret = r.secret0
              /\ (Ended(r) /\ ~FailedWith(r, "secretsmanager error")) =>
                    /\ r.gen = Return(200, [message |-> Str("Certificate generated"),
                                            expires |-> Str(r.expires)])
                    /\ secret = SecretJson(CertData(r))

C11_Witness ==
    \E p \in Procs :
        /\ DeleteFailed(inv[p])
        /\ Succeeded(inv[p])
        /\ secret = SecretJson(CertData(inv[p]))
        /\ txt = inv[p].dns_value

\* C12: for a text of n >= 1 certificate blocks, each ending with the end
\* marker and a newline, the leaf is the first block with its end marker
\* and newline and the chain is the other blocks in order, each with its end
\* marker and newline: empty for n = 1, the second block for n = 2.
C12_PemSplit ==
    \A p \in Procs :
        \A bodies \in BlockSeqs :
            (inv[p].pc = "parsed" /\ inv[p].cert_pem = Concat(bodies)) =>
                /\ inv[p].certificate = Block(bodies[1])
                /\ inv[p].chain = Concat(Tail(bodies))
                /\ Len(bodies) = 1 => inv[p].chain = <<>>
                /\ Len(bodies) = 2 => inv[p].chain = Block(bodies[2])

C12_Witness ==
    \E p \in Procs :
        /\ inv[p].pc = "parsed"
        /\ inv[p].cert_pem = Concat(<<"MIIB", "MIIC", "MIID">>)
        /\ inv[p].certificate = Block("MIIB")
        /\ inv[p].chain = Block("MIIC") \o Block("MIID")

\* C13: after a signed request was answered with an error, the nonce the
\* attempt holds is the one that answer carried, not the one the request
\* has just presented.
C13_NonceReplacedOnError ==
    \A p \in Procs :
        LET r == inv[p] IN
        (r.last.kind # "none" /\ r.last.code = "error") =>
            r.nonce # NoNonce /\ r.nonce # r.last.nonce

\* the failures of a check that generate_certificate makes itself
FatalChecks == {"No DNS-01 challenge found", "Challenge failed", "Challenge validation timeout",
                "Order failed", "Order finalization timeout"}
ErrorSeen(r) ==
    \/ r.last.kind # "none" /\ r.last.code = "error"
    \/ \E msg \in FatalChecks : FailedWith(r, msg)

\* C14: the step in which a signed request is answered with an error, or in
\* which a check of the workflow fails, ends the attempt: the attempt has
\* failed (with the ACME error when it was an error answer), it has put
\* nothing, and from then on no step of it sends a signed request, so the
\* failed request is not sent again either.
C14_ErrorAborts ==
    /\ [](\A p \in Procs :
            LET r == inv[p] IN
            /\ (r.last.kind # "none" /\ r.last.code = "error") => r.gen = AcmeError
            /\ ErrorSeen(r) => Failed(r) /\ r.pc \notin GenSteps /\ r.puts = 0)
    /\ [][\A p \in Procs :
            ErrorSeen(inv[p]) => ~Sends(p) /\ ~PutSecret(p) /\ ~Cleanup(p)]_vars

C14_Witness ==
    \E p \in Procs :
        /\ inv[p].last.kind = "orderpoll"
        /\ inv[p].last.code = "error"
        /\ inv[p].i >= 1
        /\ inv[p].pc = "done"
        /\ started = MaxInvocations

\* the secret the attempt read holds account-key bytes that do not load
MalformedKeyIn(s) ==
    s.kind = "json" /\ "account_key" \in DOMAIN s.data /\ ~PemLoads(s.data.account_key)

\* C15: the load of the account key goes on with a newly generated key when
\* the secret or the key is absent, and in the case where the stored
\* account-key bytes are present but malformed it goes on with no key at
\* all: the attempt fails with the key load error.
C15_KeyLoadError ==
    \A p \in Procs :
        LET r == inv[p]
            malformed == r.read_ok /\ MalformedKeyIn(r.secret0) IN
        (r.loaded # "" \/ FailedWith(r, "KeyLoadError")) =>
            /\ ~malformed => r.loaded # ""
            /\ (~r.read_ok \/ r.secret0.kind # "json"
                   \/ "account_key" \notin DOMAIN r.secret0.data) => r.loaded = "generated"
            /\ malformed => r.loaded = "" /\ FailedWith(r, "KeyLoadError")

\* the attempt has submitted the challenge
ChallengeSubmitted(r) ==
    r.last.kind \in {"challenge", "authpoll", "finalize", "orderpoll", "certificate"}

\* C16: the challenge is submitted only by an attempt that upserted the TXT
\* record, then got INSYNC from a status query, then slept the settle delay:
\* the settle delay starts only on a query that reported INSYNC, the
\* submission is possible only once the settle delay is over, and a change
\* last reported PENDING is queried again after the 5 s sleep and leads to
\* no submission; the challenge is submitted once, and the first
\* authorization poll directly follows that one accepted submission.
C16_SubmitAfterDnsSettled ==
    /\ [](\A p \in Procs :
            LET r == inv[p] IN
            /\ (r.pc \in {"settle", "submit"} \/ ChallengeSubmitted(r)) =>
                  /\ r.change = "INSYNC"
                  /\ Upserted(r, 1)
                  /\ r.dns[1].value = r.dns_value
            /\ r.change = "PENDING" =>
                  /\ r.pc \in {"propagate", "sleep5"} \/ FailedWith(r, "route53 error")
                  /\ ~ChallengeSubmitted(r)
            /\ r.pc = "sleep5" => r.change = "PENDING"
            /\ r.pc \in {"propagate", "sleep5"} => Upserted(r, 1) /\ txt = r.dns_value
            /\ (r.pc = "authpoll" /\ r.i = 0) => r.last.kind = "challenge" /\ r.last.code = "2xx")
    /\ [][\A p \in Procs :
            /\ (inv'[p].pc = "settle" /\ inv[p].pc # "settle") =>
                  GetChange(p) /\ inv'[p].change = "INSYNC"
            /\ (inv'[p].pc = "submit" /\ inv[p].pc # "submit") => Settle(p)
            /\ SubmitChallenge(p) => inv[p].last.kind = "authz" /\ inv[p].change = "INSYNC"
            /\ (inv'[p].last.kind = "challenge" /\ inv'[p].last # inv[p].last) =>
                  SubmitChallenge(p)
            /\ (PollAuthorization(p) /\ inv[p].i = 0) =>
                  inv[p].last.kind = "challenge" /\ inv[p].last.code = "2xx"]_vars

C16_Witness ==
    \E p \in Procs :
        /\ inv[p].pc = "authpoll"
        /\ inv[p].i = 1
        /\ inv[p].change = "INSYNC"
        /\ Upserted(inv[p], 1)
        /\ inv[p].last.kind = "authpoll"

\* C17: the newAccount request carries the jwk of the account key and no
\* kid; every other signed request carries as kid the account URL, which is
\* a URL, and no jwk.
C17_KidAfterRegistration ==
    \A p \in Procs :
        LET r == inv[p] IN
        /\ r.last.kind = "newAccount" =>
              r.last.jwk = Jwk(r.account_key) /\ r.last.kid = NoUrl
        /\ r.last.kind \notin {"none", "newAccount"} =>
              /\ r.last.kid # NoUrl
              /\ r.last.kid = r.account_url
              /\ r.last.jwk = NoJwk

\* the secret is the bundle attempt r assembled, all of it
BundleOf(r) ==
    /\ Succeeded(r)
    /\ secret = SecretJson(CertData(r))
    /\ r.cert_key = r.csr
    /\ FinalizeSent(r)
    /\ r.last.key = r.account_key

\* C18: with two attempts overlapping, once an attempt has put the secret
\* the secret is the whole bundle of one attempt that succeeded: leaf,
\* chain, expiry, the private key of the CSR that attempt sent and the
\* account key it signed with; before any put it is what it was.
C18_BundleFromOneAttempt ==
    /\ (\E p \in DOMAIN inv : Succeeded(inv[p])) => \E p \in DOMAIN inv : BundleOf(inv[p])
    /\ (\A p \in DOMAIN inv : ~Succeeded(inv[p])) => secret \in ConcSecrets \cup InitialSecrets

C18_Witness ==
    /\ \A p \in Instances : Succeeded(inv[p])
    /\ inv["lambda"].puts = 1 /\ inv["lambda2"].puts = 1
    /\ inv["lambda"].account_key # inv["lambda2"].account_key
    /\ inv["lambda"].secret0 = SecretAbsent /\ inv["lambda2"].secret0 = SecretAbsent
    /\ BundleOf(inv["lambda2"])

\* what holds of the custom resource response at every moment
CfnResponseSafe(r) ==
    LET cfn == Dispatch(r.event) = "cfn"
        issuing == r.event.RequestType \in {"Create", "Update"} IN
    /\ Len(r.cfn_sent) <= 1
    /\ ~cfn => Len(r.cfn_sent) = 0
    /\ Len(r.cfn_sent) = 1 =>
          /\ cfn /\ r.pc = "done"
          /\ issuing => Ended(r)
          /\ r.cfn_sent[1].Status = IF issuing /\ ~Succeeded(r) THEN "FAILED" ELSE "SUCCESS"
    /\ (cfn /\ r.pc = "done") =>
          Len(r.cfn_sent) = 1 \/ r.result = Raised("urlopen error", NoDoc)
    /\ (cfn /\ ~issuing) =>
          /\ ~Ended(r) /\ r.pc \notin GenSteps
          /\ r.last = NoReq /\ r.dns = <<>> /\ r.puts = 0
          /\ secret = r.secret0

\* C19: every custom resource event gets one response, sent (or its sending
\* tried, when the PUT itself fails) once the issuance attempt, if there is
\* one, has ended: never two, never one before the attempt's end; its status
\* is FAILED when the request is a Create or an Update and the attempt
\* raised or returned another status than 200, SUCCESS otherwise; a request
\* of another type starts no attempt, changes no DNS record and puts no
\* secret.
C19_CfnResponds ==
    /\ [](\A p \in Procs : CfnResponseSafe(inv[p]))
    /\ \A p \in Procs :
          (inv[p].pc = "cfn") ~> (inv[p].pc = "done" /\ Dispatch(inv[p].event) = "cfn")

\* the part of C19 that holds: whenever the handler ends
C19_Safety == \A p \in Procs : CfnResponseSafe(inv[p])
====
